---- MODULE Spec2Model ----
(***************************************************************************)
(* Credential renewal in the CodeCriticAI desktop client.                  *)
(*                                                                         *)
(* frontend/src/services/axiosInstanceService.ts : the axios instance      *)
(*   `api`, its request interceptor, its response interceptor (the         *)
(*   single-flight renewal built on isRefreshing / failedQueue).           *)
(* frontend/src/services/authService.ts : isTokenExpired, tryAutoLogin.    *)
(* frontend/electron/authStore.ts, preload.ts, main.ts : the credential    *)
(*   store (keytar) and the bridge window.electronAPI in front of it.      *)
(*                                                                         *)
(* The renderer is single threaded: one step of the model is the code that *)
(* runs between two suspension points (an awaited store call or network    *)
(* call).  A store call takes effect at the step in which it returns.      *)
(***************************************************************************)
EXTENDS Integers, Sequences, FiniteSets, TLC

\* ---------------------------------------------------------------- bounds
NumReq == 2          \* API calls the application dispatches through `api`
MaxExp == 1          \* largest exp claim (seconds) carried by a credential
ConcReq == 1         \* API calls in flight beside a tryAutoLogin call

ApiSlots == 1..NumReq
AutoSlot == 0        \* the api.post("/auth/refresh") issued by tryAutoLogin
LoginSlot == -1      \* the api.post("/auth/login") issued by loginUser
RegisterSlot == -2   \* the api.post("/auth/register") issued by registerUser
ReviewSlot == -3     \* the api.post("/review/upload") issued by doFileReview
Slots == ApiSlots \cup {AutoSlot, LoginSlot, RegisterSlot, ReviewSlot}

\* ------------------------------------------------------------ credentials
\* A credential is a JWT: id identifies the string, dec says whether
\* jwtDecode accepts it, exp is its exp claim (0: the claim is missing).
Null   == [id |-> 0,  dec |-> FALSE, exp |-> 0]   \* null / undefined
NoAuth == [id |-> -1, dec |-> FALSE, exp |-> 0]   \* no Authorization header

Jwt(i, d, e) == [id |-> i, dec |-> d, exp |-> e]

Exps == 0..MaxExp
\* Date.now() as read by one call of isTokenExpired (milliseconds)
Nows == {e * 1000 - 1 : e \in 1..MaxExp} \cup {e * 1000 : e \in 1..MaxExp}

\* authService.ts isTokenExpired
isTokenExpiredInclusive(token, now) ==
    IF token = Null THEN TRUE
    ELSE IF ~token.dec THEN TRUE
    ELSE IF token.exp = 0 THEN TRUE
    ELSE now > token.exp * 1000

isTokenExpiredFlipped(token, now) ==
    IF token = Null THEN TRUE
    ELSE IF ~token.dec THEN TRUE
    ELSE IF token.exp = 0 THEN TRUE
    ELSE now < token.exp * 1000

isTokenExpired(token, now) ==
    IF token = Null THEN TRUE
    ELSE IF ~token.dec THEN TRUE
    ELSE IF token.exp = 0 THEN TRUE
    ELSE now >= token.exp * 1000

\* -------------------------------------------------------------- the bridge
\* preload.ts exposes three credential methods; the ElectronAPI declaration
\* the renderer is compiled against names five, all implemented by
\* authStore.ts.
PreloadBridge  == {"getToken", "saveToken", "deleteToken"}
DeclaredBridge == {"getToken", "saveToken", "deleteToken",
                   "getRefreshToken", "saveRefreshToken"}

VARIABLES
    bridge,        \* the credential methods window.electronAPI has
    accessTok,     \* keytar entry "auth-token"
    refreshTok,    \* keytar entry "refresh-auth-token"
    isRefreshing,  \* axiosInstanceService.ts module variable
    failedQueue,   \* axiosInstanceService.ts module variable
    defaultAuth,   \* api.defaults.headers.common["Authorization"]
    req,           \* the requests made through `api`, one per slot
    chd,           \* the api.post("/auth/refresh") of the cycle a slot started
    auto,          \* the tryAutoLogin call
    cycle,         \* number of renewal cycles started so far
    refreshCalls,  \* number of POST /auth/refresh put on the wire so far
    issued,        \* number of credentials the remote has issued so far
    redirected,    \* window.location.href = "/login" has been executed
    login,         \* the loginUser call
    logout,        \* the logoutUser call
    review         \* the handleReview call and Dashboard's isProcessingReview

vars == <<bridge, accessTok, refreshTok, isRefreshing, failedQueue,
          defaultAuth, req, chd, auto, cycle, refreshCalls, issued,
          redirected, login, logout, review>>

AuthStatus == {401, 422}

IdleReq == [pc |-> "idle", retry |-> FALSE, hdr |-> NoAuth, bearer |-> NoAuth,
            first |-> NoAuth, sends |-> 0, res |-> "none", err |-> "none",
            cyc |-> 0, role |-> "none", got |-> Null,
            seen |-> FALSE, newTok |-> Null, newRT |-> Null]

IdleChd == [pc |-> "none", retry |-> FALSE, hdr |-> NoAuth, bearer |-> NoAuth,
            acc |-> Null, res |-> "none",
            tok |-> Null, rt |-> Null]

IdleAuto == [pc |-> "idle", tok |-> Null, now |-> 0, rtok |-> Null,
             rnow |-> 0, res |-> "none", ret |-> Null, net |-> 0,
             newTok |-> Null, newRT |-> Null]

\* body: what the body of the error loginUser caught carries (a message
\* field, an error field, neither).  fault: a store call of
\* loginUser has thrown.  hadTok, hadRT: the store when loginUser was called.
IdleLogin == [pc |-> "idle", body |-> "none", res |-> "none",
              thrown |-> "none", fault |-> FALSE,
              newTok |-> Null, newRT |-> Null,
              hadTok |-> Null, hadRT |-> Null]

Bodies == {"message", "error", "none"}

\* isProcessingReview: Dashboard.tsx state, written by setIsProcessingReview.
\* filePath: the prop handleReview was called with ("": none selected).
\* token: what doFileReview read from the store.  toast: setToastData's type.
IdleReview == [pc |-> "idle", isProcessingReview |-> FALSE, filePath |-> "",
               token |-> Null, res |-> "none", toast |-> "none",
               is_new_version |-> FALSE, finished |-> FALSE]

QReq(s) == [k |-> "req", s |-> s]
QChd(s) == [k |-> "chd", s |-> s]
InQueue(e) == \E i \in 1..Len(failedQueue) : failedQueue[i] = e

\* axiosInstanceService.ts processQueue: settle every queued waiter, then
\* empty the queue.  A resolved waiter runs its .then(): it writes the token
\* into its Authorization header and calls api(originalRequest), which enters
\* the request interceptor and suspends on getToken.  A rejected waiter's
\* promise rejects to its caller.  `seen` records the value of isRefreshing
\* when the waiter's continuation runs.
ProcessQueue(rq, error, token, flag) ==
    [s \in Slots |->
        IF InQueue(QReq(s))
        THEN IF error
             THEN [rq[s] EXCEPT !.pc = "done", !.res = "fail",
                                !.err = "renewal", !.seen = flag]
             ELSE [rq[s] EXCEPT !.pc = "reqInt", !.hdr = token,
                                !.got = token, !.seen = flag]
        ELSE rq[s]]

\* The same for the queued refresh calls.
ProcessQueueChd(ch, error, token) ==
    [s \in Slots |->
        IF InQueue(QChd(s))
        THEN [ch[s] EXCEPT !.pc = "drained"]
        ELSE ch[s]]


\* ------------------------------------------------------------ the remote
\* The n-th credential the remote issues.
Fresh(n) == Jwt(2 + n, TRUE, MaxExp)

\* Statuses of a response; 0 stands for a network error (no response).
Statuses == {200, 401, 422, 500, 0}

\* POST /auth/refresh is authenticated by its bearer credential: the remote
\* issues nothing to a call whose Authorization header carries none
\* ("Bearer null", or no header).
RemoteRenews(bearer) == bearer.id > 0

\* ------------------------------------------------------ initial state
InitStore ==
    /\ accessTok \in {Null, Jwt(1, TRUE, MaxExp)}
    /\ refreshTok \in {Null, Jwt(2, TRUE, MaxExp)}

Init ==
    /\ bridge \in {PreloadBridge, DeclaredBridge}
    /\ InitStore
    /\ (bridge = PreloadBridge => refreshTok = Null)
    /\ isRefreshing = FALSE
    /\ failedQueue = <<>>
    /\ defaultAuth = NoAuth
    /\ req = [s \in Slots |-> IdleReq]
    /\ chd = [s \in Slots |-> IdleChd]
    /\ auto = IdleAuto
    /\ cycle = 0
    /\ refreshCalls = 0
    /\ issued = 0
    /\ redirected = FALSE
    /\ login = IdleLogin
    /\ logout = "idle"
    /\ review = IdleReview

\* ------------------------------------------------- request interceptor
\* axiosInstanceService.ts api.interceptors.request.use: the header the
\* request leaves with, given the stored access credential.
AttachToken(token, hdr) == IF token # Null THEN token ELSE hdr

\* A caller invokes api(config): the configured Authorization header is the
\* caller's own (`Bearer ${token}` with the stored credential, as the review
\* services do) or the instance default; the request interceptor starts and
\* suspends on window.electronAPI.getToken().
Dispatch(s) ==
    /\ s \in ApiSlots
    /\ req[s].pc = "idle"
    /\ \E h \in {defaultAuth, accessTok} :
          req' = [req EXCEPT ![s].pc = "reqInt", ![s].hdr = h]
    /\ UNCHANGED <<review, login, logout, bridge, accessTok, refreshTok, isRefreshing, failedQueue,
                   defaultAuth, chd, auto, cycle, refreshCalls, issued,
                   redirected>>

\* getToken() returns: the interceptor attaches the stored credential and
\* the request goes on the wire.
ReqIntReturn(s) ==
    /\ req[s].pc = "reqInt"
    /\ LET b == AttachToken(accessTok, req[s].hdr) IN
          req' = [req EXCEPT ![s].pc = "sent", ![s].bearer = b,
                             ![s].sends = @ + 1,
                             ![s].first = IF req[s].sends = 0 THEN b ELSE @]
    /\ refreshCalls' = IF s = AutoSlot THEN refreshCalls + 1 ELSE refreshCalls
    /\ auto' = IF s = AutoSlot THEN [auto EXCEPT !.net = @ + 1] ELSE auto
    /\ UNCHANGED <<review, login, logout, bridge, accessTok, refreshTok, isRefreshing, failedQueue,
                   defaultAuth, chd, cycle, issued, redirected>>

\* getToken() throws: the rejection runs down the chain to the response
\* interceptor's error handler, which has no response status to look at and
\* rejects to the caller.
ReqIntThrow(s) ==
    /\ req[s].pc = "reqInt"
    /\ req' = [req EXCEPT ![s].pc = "done", ![s].res = "fail",
                          ![s].err = "store"]
    /\ UNCHANGED <<review, login, logout, bridge, accessTok, refreshTok, isRefreshing, failedQueue,
                   defaultAuth, chd, auto, cycle, refreshCalls, issued,
                   redirected>>

\* ------------------------------------------------ response interceptor
\* The catch block up to its suspension on deleteToken(): processQueue(err),
\* localStorage.removeItem("user"), call deleteToken().  The values req, chd
\* and failedQueue take.
CatchEffect(s, rq, ch, flag) ==
    [req |-> [ProcessQueue(rq, TRUE, Null, flag) EXCEPT ![s].pc = "del"],
     chd |-> ProcessQueueChd(ch, TRUE, Null),
     failedQueue |-> <<>>]

CatchOf(s, rq, ch, flag) ==
    LET e == CatchEffect(s, rq, ch, flag) IN
    /\ req' = e.req
    /\ chd' = e.chd
    /\ failedQueue' = e.failedQueue

\* The condition of the error handler's first if.
RenewalEligibleNoRetryCheck(status, retry) == status \in AuthStatus

RenewalEligibleOnly401(status, retry) == status = 401 /\ ~retry

RenewalEligibleAnyStatus(status, retry) == ~retry

RenewalEligible(status, retry) == status \in AuthStatus /\ ~retry

\* What the caller of a rejected request sees of the error.
ErrLabel(st) == IF st = 0 THEN "net"
                ELSE IF st \in AuthStatus THEN "auth"
                ELSE "status"

\* The error handler run for request s on an error response of status st
\* (0: no response), up to its first suspension: the values it leaves in
\* req, failedQueue, isRefreshing, cycle and chd.  An authentication failure
\* of a request not yet retried sets _retry and either enqueues the request
\* (renewal in flight) or starts a renewal cycle; anything else is rejected
\* to the caller.
ErrorHandler(s, st) ==
    LET r == req[s] IN
    IF RenewalEligible(st, r.retry)
    THEN IF isRefreshing
         THEN [req |-> [req EXCEPT ![s] = [r EXCEPT !.retry = TRUE,
                                                    !.pc = "waiting",
                                                    !.cyc = cycle,
                                                    !.role = "wait"]],
               failedQueue |-> Append(failedQueue, QReq(s)),
               isRefreshing |-> isRefreshing, cycle |-> cycle, chd |-> chd]
         ELSE LET r2 == [r EXCEPT !.retry = TRUE, !.cyc = cycle + 1,
                                  !.role = "init"] IN
              IF "getRefreshToken" \in bridge
              THEN [req |-> [req EXCEPT ![s] = [r2 EXCEPT !.pc = "getRT"]],
                    failedQueue |-> failedQueue,
                    isRefreshing |-> TRUE, cycle |-> cycle + 1, chd |-> chd]
              ELSE LET e == CatchEffect(s,
                                [req EXCEPT ![s] = [r2 EXCEPT !.err = "renewal"]],
                                chd, TRUE) IN
                   [req |-> e.req, failedQueue |-> e.failedQueue,
                    isRefreshing |-> TRUE, cycle |-> cycle + 1, chd |-> e.chd]
    ELSE [req |-> [req EXCEPT ![s] = [r EXCEPT !.pc = "done", !.res = "fail",
                                               !.err = ErrLabel(st)]],
          failedQueue |-> failedQueue,
          isRefreshing |-> isRefreshing, cycle |-> cycle, chd |-> chd]

\* The slots whose 200 response carries credentials: POST /auth/refresh of
\* tryAutoLogin ({token, refreshToken?}, either possibly missing) and
\* POST /auth/login ({token, refreshToken?, user}).
IssuingSlots == {AutoSlot, LoginSlot}

\* The response to a request arrives.  200: (response) => response.
\* Otherwise the error handler runs.
Respond(s) ==
    /\ req[s].pc = "sent"
    /\ \E st \in Statuses :
        LET r == req[s] IN
        IF st = 200
        THEN /\ \E t \in {Null, Fresh(issued + 1)}, u \in {Null, Fresh(issued + 2)} :
                  /\ s \notin IssuingSlots => (t = Null /\ u = Null)
                  /\ s = LoginSlot => t # Null
                  /\ s = AutoSlot => RemoteRenews(r.bearer)
                  /\ req' = [req EXCEPT ![s] = [r EXCEPT !.pc = "done", !.res = "ok",
                                                        !.newTok = t, !.newRT = u]]
                  /\ issued' = IF s \in IssuingSlots THEN issued + 2 ELSE issued
             /\ UNCHANGED <<isRefreshing, failedQueue, chd, cycle>>
        ELSE LET e == ErrorHandler(s, st) IN
             /\ req' = e.req
             /\ failedQueue' = e.failedQueue
             /\ isRefreshing' = e.isRefreshing
             /\ cycle' = e.cycle
             /\ chd' = e.chd
             /\ UNCHANGED issued
    /\ UNCHANGED <<review, login, logout, bridge, accessTok, refreshTok, defaultAuth,
                   auto, refreshCalls, redirected>>

\* getRefreshToken() returns: api.post("/auth/refresh") is called with the
\* renewal credential as its header; it enters the request interceptor and
\* suspends on getToken().
GetRTReturn(s) ==
    /\ req[s].pc = "getRT"
    /\ req' = [req EXCEPT ![s].pc = "exch"]
    /\ chd' = [chd EXCEPT ![s] = [IdleChd EXCEPT !.pc = "reqInt", !.hdr = refreshTok]]
    /\ UNCHANGED <<review, login, logout, bridge, accessTok, refreshTok, isRefreshing, failedQueue,
                   defaultAuth, auto, cycle, refreshCalls, issued, redirected>>

\* getRefreshToken() throws: catch.
GetRTThrow(s) ==
    /\ req[s].pc = "getRT"
    /\ CatchOf(s, [req EXCEPT ![s].err = "renewal"], chd, isRefreshing)
    /\ UNCHANGED <<review, login, logout, bridge, accessTok, refreshTok, isRefreshing, defaultAuth,
                   auto, cycle, refreshCalls, issued, redirected>>

\* The refresh call's request interceptor resumes and the exchange goes on
\* the wire.
ChdReqIntReturn(s) ==
    /\ chd[s].pc = "reqInt"
    /\ chd' = [chd EXCEPT ![s].pc = "sent",
                          ![s].bearer = AttachToken(accessTok, chd[s].hdr),
                          ![s].acc = accessTok]
    /\ refreshCalls' = refreshCalls + 1
    /\ UNCHANGED <<review, login, logout, bridge, accessTok, refreshTok, isRefreshing, failedQueue,
                   defaultAuth, req, auto, cycle, issued, redirected>>

\* getToken() throws inside the refresh call: the call rejects, catch.
ChdReqIntThrow(s) ==
    /\ chd[s].pc = "reqInt"
    /\ CatchOf(s, [req EXCEPT ![s].err = "renewal"],
                  [chd EXCEPT ![s].pc = "done", ![s].res = "fail"], isRefreshing)
    /\ UNCHANGED <<review, login, logout, bridge, accessTok, refreshTok, isRefreshing, defaultAuth,
                   auto, cycle, refreshCalls, issued, redirected>>

\* The error handler run for the refresh call of the cycle s started, and,
\* where it rejects the call, the catch block of the cycle awaiting it: the
\* values they leave in req, chd and failedQueue.  The call was made through
\* `api`, so the handler sees the refresh call as originalRequest: on 401/422
\* it is marked _retry and, a renewal being in flight, pushed onto
\* failedQueue.
ChdErrorHandler(s, st) ==
    LET c == chd[s] IN
    IF RenewalEligible(st, c.retry)
    THEN IF isRefreshing
         THEN [req |-> req,
               chd |-> [chd EXCEPT ![s] = [c EXCEPT !.retry = TRUE,
                                                    !.pc = "waiting"]],
               failedQueue |-> Append(failedQueue, QChd(s))]
         ELSE [req |-> req,
               chd |-> [chd EXCEPT ![s] = [c EXCEPT !.retry = TRUE,
                                                    !.pc = "nested"]],
               failedQueue |-> failedQueue]
    ELSE CatchEffect(s, [req EXCEPT ![s].err = "renewal"],
                     [chd EXCEPT ![s] = [c EXCEPT !.pc = "done", !.res = "fail"]],
                     isRefreshing)

\* const newToken = response.data?.token; if (!newToken) throw ...
NoTokenReceivedNever(t) == FALSE

NoTokenReceived(t) == t = Null

\* The response to the refresh call arrives.
ChdRespond(s) ==
    /\ chd[s].pc = "sent"
    /\ \E st \in Statuses :
        LET c == chd[s] IN
        IF st = 200
        THEN \E t \in {Null, Fresh(issued + 1)}, u \in {Null, Fresh(issued + 2)} :
               /\ RemoteRenews(c.bearer)
               /\ issued' = issued + 2
               /\ IF NoTokenReceived(t)
                  THEN CatchOf(s, [req EXCEPT ![s].err = "renewal"],
                               [chd EXCEPT ![s] = [c EXCEPT !.pc = "done", !.res = "ok",
                                                           !.tok = t, !.rt = u]],
                               isRefreshing)
                  ELSE /\ req' = [req EXCEPT ![s].pc = "save", ![s].newTok = t,
                                             ![s].newRT = u]
                       /\ chd' = [chd EXCEPT ![s] = [c EXCEPT !.pc = "done", !.res = "ok",
                                                             !.tok = t, !.rt = u]]
                       /\ UNCHANGED failedQueue
        ELSE LET e == ChdErrorHandler(s, st) IN
             /\ req' = e.req
             /\ chd' = e.chd
             /\ failedQueue' = e.failedQueue
             /\ UNCHANGED issued
    /\ UNCHANGED <<review, login, logout, bridge, accessTok, refreshTok, isRefreshing,
                   defaultAuth, auto, cycle, refreshCalls, redirected>>

\* saveToken(newToken) returns: the default header and the request's header
\* take the new credential, processQueue(null, newToken), the original
\* request is called again, finally resets the flag.
SaveReturn(s) ==
    /\ req[s].pc = "save"
    /\ accessTok' = req[s].newTok
    /\ defaultAuth' = req[s].newTok
    /\ isRefreshing' = FALSE
    /\ req' = [ProcessQueue(req, FALSE, req[s].newTok, FALSE)
                  EXCEPT ![s].pc = "reqInt", ![s].hdr = req[s].newTok,
                         ![s].got = req[s].newTok]
    /\ chd' = ProcessQueueChd(chd, FALSE, req[s].newTok)
    /\ failedQueue' = <<>>
    /\ UNCHANGED <<review, login, logout, bridge, refreshTok, auto, cycle, refreshCalls, issued,
                   redirected>>

\* saveToken(newToken) throws: catch.
SaveThrow(s) ==
    /\ req[s].pc = "save"
    /\ CatchOf(s, [req EXCEPT ![s].err = "renewal"], chd, isRefreshing)
    /\ UNCHANGED <<review, login, logout, bridge, accessTok, refreshTok, isRefreshing, defaultAuth,
                   auto, cycle, refreshCalls, issued, redirected>>

\* deleteToken() returns (authStore.ts deletes both keytar entries): the
\* redirect is executed, the caught error is rejected to the caller, finally
\* resets the flag.
DelReturn(s) ==
    /\ req[s].pc = "del"
    /\ accessTok' = Null
    /\ refreshTok' = Null
    /\ redirected' = TRUE
    /\ isRefreshing' = FALSE
    /\ req' = [req EXCEPT ![s].pc = "done", ![s].res = "fail"]
    /\ UNCHANGED <<review, login, logout, bridge, failedQueue, defaultAuth, chd, auto, cycle,
                   refreshCalls, issued>>

\* deleteToken() throws, in its first or in its second keytar call: the
\* catch block is left by that exception, finally resets the flag.
DelThrow(s) ==
    /\ req[s].pc = "del"
    /\ \E second \in BOOLEAN :
          accessTok' = IF second THEN Null ELSE accessTok
    /\ isRefreshing' = FALSE
    /\ req' = [req EXCEPT ![s].pc = "done", ![s].res = "fail", ![s].err = "store"]
    /\ UNCHANGED <<review, login, logout, bridge, refreshTok, failedQueue, defaultAuth, chd, auto,
                   cycle, refreshCalls, issued, redirected>>

\* The steps of a request once api(config) has been called.
PipelineSteps(s) ==
    \/ ReqIntReturn(s)
    \/ ReqIntThrow(s)
    \/ Respond(s)
    \/ GetRTReturn(s)
    \/ GetRTThrow(s)
    \/ ChdReqIntReturn(s)
    \/ ChdReqIntThrow(s)
    \/ ChdRespond(s)
    \/ SaveReturn(s)
    \/ SaveThrow(s)
    \/ DelReturn(s)
    \/ DelThrow(s)

Pipeline(s) == Dispatch(s) \/ PipelineSteps(s)

\* ------------------------------------------------------- tryAutoLogin
\* authService.ts tryAutoLogin is called: it suspends on getToken().
AutoCall ==
    /\ auto.pc = "idle"
    /\ auto' = [auto EXCEPT !.pc = "getTok"]
    /\ UNCHANGED <<review, login, logout, bridge, accessTok, refreshTok, isRefreshing, failedQueue,
                   defaultAuth, req, chd, cycle, refreshCalls, issued,
                   redirected>>

\* getToken() returns.  A usable access credential is returned as it is.
\* Otherwise getRefreshToken?.() is called: it suspends, or, the bridge not
\* having the method, yields undefined and tryAutoLogin returns null.
AutoGetTok ==
    /\ auto.pc = "getTok"
    /\ \E now \in Nows :
         LET a == [auto EXCEPT !.tok = accessTok, !.now = now] IN
         IF accessTok # Null /\ ~isTokenExpired(accessTok, now)
         THEN auto' = [a EXCEPT !.pc = "done", !.res = "stored", !.ret = accessTok]
         ELSE IF "getRefreshToken" \in bridge
         THEN auto' = [a EXCEPT !.pc = "getRT"]
         ELSE auto' = [a EXCEPT !.pc = "done", !.res = "null"]
    /\ UNCHANGED <<review, login, logout, bridge, accessTok, refreshTok, isRefreshing, failedQueue,
                   defaultAuth, req, chd, cycle, refreshCalls, issued,
                   redirected>>

\* getRefreshToken() returns.  A usable renewal credential is sent with
\* api.post("/auth/refresh"), which enters the request interceptor.
AutoGetRTNoExpiryCheck ==
    /\ auto.pc = "getRT"
    /\ \E now \in Nows :
         IF refreshTok # Null
         THEN /\ auto' = [auto EXCEPT !.pc = "exch", !.rtok = refreshTok,
                                      !.rnow = now]
              /\ req' = [req EXCEPT ![AutoSlot] =
                            [IdleReq EXCEPT !.pc = "reqInt", !.hdr = refreshTok]]
         ELSE /\ auto' = [auto EXCEPT !.pc = "done", !.res = "null",
                                      !.rtok = refreshTok, !.rnow = now]
              /\ UNCHANGED req
    /\ UNCHANGED <<review, login, logout, bridge, accessTok, refreshTok, isRefreshing,
                   failedQueue, defaultAuth, chd, cycle, refreshCalls, issued,
                   redirected>>

AutoGetRT ==
    /\ auto.pc = "getRT"
    /\ \E now \in Nows :
         IF refreshTok # Null /\ ~isTokenExpired(refreshTok, now)
         THEN /\ auto' = [auto EXCEPT !.pc = "exch", !.rtok = refreshTok,
                                      !.rnow = now]
              /\ req' = [req EXCEPT ![AutoSlot] =
                            [IdleReq EXCEPT !.pc = "reqInt", !.hdr = refreshTok]]
         ELSE /\ auto' = [auto EXCEPT !.pc = "done", !.res = "null",
                                      !.rtok = refreshTok, !.rnow = now]
              /\ UNCHANGED req
    /\ UNCHANGED <<review, login, logout, bridge, accessTok, refreshTok, isRefreshing, failedQueue,
                   defaultAuth, chd, cycle, refreshCalls, issued, redirected>>

\* getToken() or getRefreshToken() throws: neither call is inside the try
\* block, tryAutoLogin rejects.
AutoStoreThrow ==
    /\ auto.pc \in {"getTok", "getRT"}
    /\ auto' = [auto EXCEPT !.pc = "done", !.res = "throw"]
    /\ UNCHANGED <<review, login, logout, bridge, accessTok, refreshTok, isRefreshing, failedQueue,
                   defaultAuth, req, chd, cycle, refreshCalls, issued,
                   redirected>>

\* The refresh call settles.  Fulfilled: saveToken(newAccessToken) is called
\* whatever the response carries.  Rejected: catch, return null.
AutoResume ==
    /\ auto.pc = "exch"
    /\ req[AutoSlot].pc = "done"
    /\ IF req[AutoSlot].res = "ok"
       THEN auto' = [auto EXCEPT !.pc = "save", !.newTok = req[AutoSlot].newTok,
                                 !.newRT = req[AutoSlot].newRT]
       ELSE auto' = [auto EXCEPT !.pc = "done", !.res = "null"]
    /\ UNCHANGED <<review, login, logout, bridge, accessTok, refreshTok, isRefreshing, failedQueue,
                   defaultAuth, req, chd, cycle, refreshCalls, issued,
                   redirected>>

\* saveToken(newAccessToken) returns (keytar refuses an absent password, so
\* this is a call with a token).  A new renewal credential is saved next;
\* without saveRefreshToken on the bridge that call throws inside the try.
AutoSave ==
    /\ auto.pc = "save"
    /\ auto.newTok # Null
    /\ accessTok' = auto.newTok
    /\ IF auto.newRT # Null
       THEN IF "saveRefreshToken" \in bridge
            THEN auto' = [auto EXCEPT !.pc = "saveRT"]
            ELSE auto' = [auto EXCEPT !.pc = "done", !.res = "null"]
       ELSE auto' = [auto EXCEPT !.pc = "done", !.res = "renewed",
                                 !.ret = auto.newTok]
    /\ UNCHANGED <<review, login, logout, bridge, refreshTok, isRefreshing, failedQueue, defaultAuth,
                   req, chd, cycle, refreshCalls, issued, redirected>>

\* saveRefreshToken(newRefreshToken) returns: return newAccessToken.
AutoSaveRT ==
    /\ auto.pc = "saveRT"
    /\ refreshTok' = auto.newRT
    /\ auto' = [auto EXCEPT !.pc = "done", !.res = "renewed", !.ret = auto.newTok]
    /\ UNCHANGED <<review, login, logout, bridge, accessTok, isRefreshing, failedQueue, defaultAuth,
                   req, chd, cycle, refreshCalls, issued, redirected>>

\* saveToken or saveRefreshToken throws: catch, return null.
AutoSaveThrow ==
    /\ auto.pc \in {"save", "saveRT"}
    /\ auto' = [auto EXCEPT !.pc = "done", !.res = "null"]
    /\ UNCHANGED <<review, login, logout, bridge, accessTok, refreshTok, isRefreshing, failedQueue,
                   defaultAuth, req, chd, cycle, refreshCalls, issued,
                   redirected>>

AutoLogin ==
    \/ AutoCall
    \/ AutoGetTok
    \/ AutoGetRT
    \/ AutoStoreThrow
    \/ AutoResume
    \/ AutoSave
    \/ AutoSaveRT
    \/ AutoSaveThrow

\* ---------------------------------------------------------- loginUser
\* authService.ts loginUser is called: api.post("/auth/login", credentials)
\* carries no Authorization header of its own, so the instance default
\* applies; it enters the request interceptor and suspends on getToken().
LoginCall ==
    /\ login.pc = "idle"
    /\ login' = [login EXCEPT !.pc = "post", !.hadTok = accessTok,
                              !.hadRT = refreshTok]
    /\ req' = [req EXCEPT ![LoginSlot] =
                  [IdleReq EXCEPT !.pc = "reqInt", !.hdr = defaultAuth]]
    /\ UNCHANGED <<review, logout, bridge, accessTok, refreshTok, isRefreshing,
                   failedQueue, defaultAuth, chd, auto, cycle, refreshCalls,
                   issued, redirected>>

\* The message loginUser's catch block throws for a rejected api.post: the
\* message or error field of error.response.data when the error is the login
\* response itself; "foreign" when it is the error a failed renewal cycle
\* rejected the login with; the fixed text otherwise.
LoginThrown(err, body) ==
    IF err \in {"auth", "status"}
    THEN IF body = "message" THEN "message"
         ELSE IF body = "error" THEN "error"
         ELSE "generic"
    ELSE IF err = "renewal" THEN "foreign"
    ELSE "generic"

\* The login call settles.  Fulfilled: saveToken(response.data.token) is
\* called.  Rejected: catch, throw.
LoginResume ==
    /\ login.pc = "post"
    /\ req[LoginSlot].pc = "done"
    /\ IF req[LoginSlot].res = "ok"
       THEN login' = [login EXCEPT !.pc = "save",
                                   !.newTok = req[LoginSlot].newTok,
                                   !.newRT = req[LoginSlot].newRT]
       ELSE \E b \in Bodies :
               login' = [login EXCEPT !.pc = "done", !.res = "throw",
                                      !.body = b,
                                      !.thrown = LoginThrown(req[LoginSlot].err, b)]
    /\ UNCHANGED <<review, logout, bridge, accessTok, refreshTok, isRefreshing,
                   failedQueue, defaultAuth, req, chd, auto, cycle,
                   refreshCalls, issued, redirected>>

\* saveToken(token) returns.  A refreshToken in the response is saved next;
\* without saveRefreshToken on the bridge that call throws a TypeError inside
\* the try, which has no response: the fixed text is thrown.
LoginSave ==
    /\ login.pc = "save"
    /\ accessTok' = login.newTok
    /\ IF login.newRT # Null
       THEN IF "saveRefreshToken" \in bridge
            THEN login' = [login EXCEPT !.pc = "saveRT"]
            ELSE login' = [login EXCEPT !.pc = "done", !.res = "throw",
                                        !.thrown = "generic"]
       ELSE login' = [login EXCEPT !.pc = "done", !.res = "ok"]
    /\ UNCHANGED <<review, logout, bridge, refreshTok, isRefreshing, failedQueue,
                   defaultAuth, req, chd, auto, cycle, refreshCalls, issued,
                   redirected>>

\* saveRefreshToken(refreshToken) returns: return response.data.
LoginSaveRT ==
    /\ login.pc = "saveRT"
    /\ refreshTok' = login.newRT
    /\ login' = [login EXCEPT !.pc = "done", !.res = "ok"]
    /\ UNCHANGED <<review, logout, bridge, accessTok, isRefreshing, failedQueue,
                   defaultAuth, req, chd, auto, cycle, refreshCalls, issued,
                   redirected>>

\* saveToken or saveRefreshToken throws: catch, throw the fixed text.
LoginSaveThrow ==
    /\ login.pc \in {"save", "saveRT"}
    /\ login' = [login EXCEPT !.pc = "done", !.res = "throw",
                              !.thrown = "generic", !.fault = TRUE]
    /\ UNCHANGED <<review, logout, bridge, accessTok, refreshTok, isRefreshing,
                   failedQueue, defaultAuth, req, chd, auto, cycle,
                   refreshCalls, issued, redirected>>

LoginUser ==
    \/ LoginCall
    \/ LoginResume
    \/ LoginSave
    \/ LoginSaveRT
    \/ LoginSaveThrow

\* --------------------------------------------------------- logoutUser
\* authService.ts logoutUser is called: localStorage.removeItem("user"),
\* then it suspends on deleteToken().
LogoutCall ==
    /\ logout = "idle"
    /\ logout' = "del"
    /\ UNCHANGED <<review, login, bridge, accessTok, refreshTok, isRefreshing,
                   failedQueue, defaultAuth, req, chd, auto, cycle,
                   refreshCalls, issued, redirected>>

\* deleteToken() returns (authStore.ts deletes both keytar entries):
\* logoutUser completes.
LogoutReturnAccessOnly ==
    /\ logout = "del"
    /\ logout' = "done"
    /\ accessTok' = Null
    /\ UNCHANGED <<review, login, bridge, refreshTok, isRefreshing, failedQueue,
                   defaultAuth, req, chd, auto, cycle, refreshCalls, issued,
                   redirected>>

LogoutReturn ==
    /\ logout = "del"
    /\ logout' = "done"
    /\ accessTok' = Null
    /\ refreshTok' = Null
    /\ UNCHANGED <<review, login, bridge, isRefreshing, failedQueue, defaultAuth,
                   req, chd, auto, cycle, refreshCalls, issued, redirected>>

\* deleteToken() throws, in its first or in its second keytar call:
\* logoutUser rejects.
LogoutThrow ==
    /\ logout = "del"
    /\ logout' = "threw"
    /\ \E second \in BOOLEAN :
          accessTok' = IF second THEN Null ELSE accessTok
    /\ UNCHANGED <<review, login, bridge, refreshTok, isRefreshing, failedQueue,
                   defaultAuth, req, chd, auto, cycle, refreshCalls, issued,
                   redirected>>

LogoutUser ==
    \/ LogoutCall
    \/ LogoutReturn
    \/ LogoutThrow

\* -------------------------------------------------------- registerUser
\* authService.ts registerUser is called: api.post("/auth/register",
\* credentials) carries no Authorization header of its own; it enters the
\* request interceptor and suspends on getToken().  Whatever the call settles
\* with, registerUser makes no store call: it returns response.data or throws
\* an Error built from the caught one.
RegisterCall ==
    /\ req[RegisterSlot].pc = "idle"
    /\ req' = [req EXCEPT ![RegisterSlot] =
                  [IdleReq EXCEPT !.pc = "reqInt", !.hdr = defaultAuth]]
    /\ UNCHANGED <<review, login, logout, bridge, accessTok, refreshTok,
                   isRefreshing, failedQueue, defaultAuth, chd, auto, cycle,
                   refreshCalls, issued, redirected>>

\* -------------------------------------------------------- handleReview
FilePaths == {"", "file"}

\* BottomPanel.tsx handleReview is called.  Without a file it shows the error
\* toast and returns; otherwise setIsProcessingReview(true) and doFileReview
\* is called, which suspends on getToken().
HandleReview ==
    /\ review.pc = "idle"
    /\ \E f \in FilePaths :
         IF f = ""
         THEN review' = [review EXCEPT !.pc = "done", !.res = "none",
                                       !.toast = "error"]
         ELSE review' = [review EXCEPT !.pc = "getToken", !.filePath = f,
                                       !.isProcessingReview = TRUE]
    /\ UNCHANGED <<login, logout, bridge, accessTok, refreshTok, isRefreshing,
                   failedQueue, defaultAuth, req, chd, auto, cycle,
                   refreshCalls, issued, redirected>>

\* doFileReview: getToken() returns; readFileStream(filepath) is called.
ReviewGetToken ==
    /\ review.pc = "getToken"
    /\ review' = [review EXCEPT !.pc = "readFile", !.token = accessTok]
    /\ UNCHANGED <<login, logout, bridge, accessTok, refreshTok, isRefreshing,
                   failedQueue, defaultAuth, req, chd, auto, cycle,
                   refreshCalls, issued, redirected>>

\* doFileReview: readFileStream returns; api.post("/review/upload") is called
\* with `Bearer ${token}` as its own header, it enters the request
\* interceptor and suspends on getToken().
ReviewReadFile ==
    /\ review.pc = "readFile"
    /\ review' = [review EXCEPT !.pc = "post"]
    /\ req' = [req EXCEPT ![ReviewSlot] =
                  [IdleReq EXCEPT !.pc = "reqInt", !.hdr = review.token]]
    /\ UNCHANGED <<login, logout, bridge, accessTok, refreshTok, isRefreshing,
                   failedQueue, defaultAuth, chd, auto, cycle, refreshCalls,
                   issued, redirected>>

\* getToken() throws (outside doFileReview's try) or readFileStream throws
\* (inside it: catch, throw new Error): doFileReview rejects, and the
\* rejection leaves handleReview at its await.
ReviewThrow ==
    /\ review.pc \in {"getToken", "readFile"}
    /\ review' = [review EXCEPT !.pc = "done", !.res = "throw"]
    /\ UNCHANGED <<login, logout, bridge, accessTok, refreshTok, isRefreshing,
                   failedQueue, defaultAuth, req, chd, auto, cycle,
                   refreshCalls, issued, redirected>>

\* The upload settles.  Fulfilled: doFileReview returns reviews.data,
\* handleReview reports a new version through onReviewFinished, calls
\* setIsProcessingReview(false) and shows the success toast.  Rejected:
\* doFileReview's catch throws, handleReview is left at its await.
ReviewResume ==
    /\ review.pc = "post"
    /\ req[ReviewSlot].pc = "done"
    /\ IF req[ReviewSlot].res = "ok"
       THEN \E v \in BOOLEAN :
               review' = [review EXCEPT !.pc = "done", !.res = "ok",
                                        !.is_new_version = v,
                                        !.finished = v,
                                        !.isProcessingReview = FALSE,
                                        !.toast = "success"]
       ELSE review' = [review EXCEPT !.pc = "done", !.res = "throw"]
    /\ UNCHANGED <<login, logout, bridge, accessTok, refreshTok, isRefreshing,
                   failedQueue, defaultAuth, req, chd, auto, cycle,
                   refreshCalls, issued, redirected>>

ReviewFile ==
    \/ HandleReview
    \/ ReviewGetToken
    \/ ReviewReadFile
    \/ ReviewThrow
    \/ ReviewResume

\* ------------------------------- the interceptor of unnamed/part_002
\* The response interceptor of unnamed/part_002 tells the failures apart by
\* error.message and takes the error object itself for originalRequest.  Its
\* request interceptor, its calls of getRefreshToken, api.post("/auth/refresh"),
\* saveToken and deleteToken and its catch and finally blocks are those of
\* axiosInstanceService.ts.

\* error.message === "Request failed with status code 401"; _retry is written
\* (on the error object) and never read.
VariantEligible(status) == status = 401

\* error.message === "Network Error": processQueue(error, null), then the
\* error is rejected to the caller.  Every queued request is rejected; a
\* queued refresh call is rejected too, which takes the cycle awaiting it
\* into its catch block, up to deleteToken().
VariantNetworkError(s) ==
    LET rq == ProcessQueue(req, TRUE, Null, isRefreshing) IN
    [req |-> [t \in Slots |->
                IF t = s
                THEN [req[s] EXCEPT !.pc = "done", !.res = "fail", !.err = "net"]
                ELSE IF InQueue(QChd(t))
                THEN [rq[t] EXCEPT !.pc = "del", !.err = "renewal"]
                ELSE rq[t]],
     chd |-> [t \in Slots |->
                IF InQueue(QChd(t))
                THEN [chd[t] EXCEPT !.pc = "done", !.res = "fail"]
                ELSE chd[t]],
     failedQueue |-> <<>>,
     isRefreshing |-> isRefreshing, cycle |-> cycle]

\* The error handler run for request s on an error of status st (0: the
\* network error), up to its first suspension.
VariantErrorHandler(s, st) ==
    LET r == req[s] IN
    IF st = 0
    THEN VariantNetworkError(s)
    ELSE IF VariantEligible(st)
    THEN IF isRefreshing
         THEN [req |-> [req EXCEPT ![s] = [r EXCEPT !.pc = "waiting",
                                                    !.cyc = cycle,
                                                    !.role = "wait"]],
               failedQueue |-> Append(failedQueue, QReq(s)),
               isRefreshing |-> isRefreshing, cycle |-> cycle, chd |-> chd]
         ELSE LET r2 == [r EXCEPT !.cyc = cycle + 1, !.role = "init"] IN
              IF "getRefreshToken" \in bridge
              THEN [req |-> [req EXCEPT ![s] = [r2 EXCEPT !.pc = "getRT"]],
                    failedQueue |-> failedQueue,
                    isRefreshing |-> TRUE, cycle |-> cycle + 1, chd |-> chd]
              ELSE LET e == CatchEffect(s,
                                [req EXCEPT ![s] = [r2 EXCEPT !.err = "renewal"]],
                                chd, TRUE) IN
                   [req |-> e.req, failedQueue |-> e.failedQueue,
                    isRefreshing |-> TRUE, cycle |-> cycle + 1, chd |-> e.chd]
    ELSE [req |-> [req EXCEPT ![s] = [r EXCEPT !.pc = "done", !.res = "fail",
                                               !.err = ErrLabel(st)]],
          failedQueue |-> failedQueue,
          isRefreshing |-> isRefreshing, cycle |-> cycle, chd |-> chd]

\* The response to a request arrives.
VariantRespond(s) ==
    /\ req[s].pc = "sent"
    /\ \E st \in Statuses :
        IF st = 200
        THEN /\ req' = [req EXCEPT ![s].pc = "done", ![s].res = "ok"]
             /\ UNCHANGED <<isRefreshing, failedQueue, chd, cycle>>
        ELSE LET e == VariantErrorHandler(s, st) IN
             /\ req' = e.req
             /\ failedQueue' = e.failedQueue
             /\ isRefreshing' = e.isRefreshing
             /\ cycle' = e.cycle
             /\ chd' = e.chd
    /\ UNCHANGED <<review, login, logout, bridge, accessTok, refreshTok,
                   defaultAuth, auto, refreshCalls, issued, redirected>>

\* The error handler run for the refresh call of the cycle s started, and,
\* where it rejects the call, the catch block of the cycle awaiting it.  A
\* network error runs processQueue(error, null) before it rejects the call.
VariantChdErrorHandler(s, st) ==
    LET c == chd[s] IN
    IF VariantEligible(st)
    THEN IF isRefreshing
         THEN [req |-> req,
               chd |-> [chd EXCEPT ![s] = [c EXCEPT !.pc = "waiting"]],
               failedQueue |-> Append(failedQueue, QChd(s))]
         ELSE [req |-> req,
               chd |-> [chd EXCEPT ![s] = [c EXCEPT !.pc = "nested"]],
               failedQueue |-> failedQueue]
    ELSE CatchEffect(s, [req EXCEPT ![s].err = "renewal"],
                     [chd EXCEPT ![s] = [c EXCEPT !.pc = "done", !.res = "fail"]],
                     isRefreshing)

\* The response to the refresh call arrives.
VariantChdRespond(s) ==
    /\ chd[s].pc = "sent"
    /\ \E st \in Statuses :
        LET c == chd[s] IN
        IF st = 200
        THEN \E t \in {Null, Fresh(issued + 1)}, u \in {Null, Fresh(issued + 2)} :
               /\ RemoteRenews(c.bearer)
               /\ issued' = issued + 2
               /\ IF NoTokenReceived(t)
                  THEN CatchOf(s, [req EXCEPT ![s].err = "renewal"],
                               [chd EXCEPT ![s] = [c EXCEPT !.pc = "done", !.res = "ok",
                                                           !.tok = t, !.rt = u]],
                               isRefreshing)
                  ELSE /\ req' = [req EXCEPT ![s].pc = "save", ![s].newTok = t,
                                             ![s].newRT = u]
                       /\ chd' = [chd EXCEPT ![s] = [c EXCEPT !.pc = "done", !.res = "ok",
                                                             !.tok = t, !.rt = u]]
                       /\ UNCHANGED failedQueue
        ELSE LET e == VariantChdErrorHandler(s, st) IN
             /\ req' = e.req
             /\ chd' = e.chd
             /\ failedQueue' = e.failedQueue
             /\ UNCHANGED issued
    /\ UNCHANGED <<review, login, logout, bridge, accessTok, refreshTok,
                   isRefreshing, defaultAuth, auto, cycle, refreshCalls,
                   redirected>>

\* saveToken(newToken) returns: the default header takes the new credential;
\* originalRequest being the AxiosError, which has no headers field, the
\* assignment to originalRequest.headers.Authorization throws a TypeError
\* inside the try: catch, before processQueue(null, newToken) and before
\* api(originalRequest) are reached.
VariantSaveReturn(s) ==
    /\ req[s].pc = "save"
    /\ accessTok' = req[s].newTok
    /\ defaultAuth' = req[s].newTok
    /\ CatchOf(s, [req EXCEPT ![s].err = "renewal"], chd, isRefreshing)
    /\ UNCHANGED <<review, login, logout, bridge, refreshTok, isRefreshing,
                   auto, cycle, refreshCalls, issued, redirected>>

VariantPipeline(s) ==
    \/ Dispatch(s)
    \/ ReqIntReturn(s)
    \/ ReqIntThrow(s)
    \/ VariantRespond(s)
    \/ GetRTReturn(s)
    \/ GetRTThrow(s)
    \/ ChdReqIntReturn(s)
    \/ ChdReqIntThrow(s)
    \/ VariantChdRespond(s)
    \/ VariantSaveReturn(s)
    \/ SaveThrow(s)
    \/ DelReturn(s)
    \/ DelThrow(s)

\* ---------------------------------------------------- specifications
\* The request pipeline under NumReq concurrent API calls.
Next == \E s \in ApiSlots : Pipeline(s)

Spec == Init /\ [][Next]_vars

\* tryAutoLogin running beside ConcReq API calls; the stored credentials
\* range over undecodable, claim-less, expired and usable tokens.
InitAuto ==
    /\ bridge \in {PreloadBridge, DeclaredBridge}
    /\ accessTok \in {Null} \cup {Jwt(1, d, e) : d \in BOOLEAN, e \in Exps}
    /\ refreshTok \in {Null} \cup {Jwt(2, d, e) : d \in BOOLEAN, e \in Exps}
    /\ (bridge = PreloadBridge => refreshTok = Null)
    /\ isRefreshing = FALSE
    /\ failedQueue = <<>>
    /\ defaultAuth = NoAuth
    /\ req = [s \in Slots |-> IdleReq]
    /\ chd = [s \in Slots |-> IdleChd]
    /\ auto = IdleAuto
    /\ cycle = 0
    /\ refreshCalls = 0
    /\ issued = 0
    /\ redirected = FALSE
    /\ login = IdleLogin
    /\ logout = "idle"
    /\ review = IdleReview

NextAuto ==
    \/ AutoLogin
    \/ \E s \in (1..ConcReq) \cup {AutoSlot} : Pipeline(s)

SpecAuto == InitAuto /\ [][NextAuto]_vars

\* tryAutoLogin alone: its own steps and those of its refresh call.
NextResume == AutoLogin \/ PipelineSteps(AutoSlot)

SpecResume == InitAuto /\ [][NextResume]_vars

\* loginUser alone: its own steps and those of its login call.
NextLogin == LoginUser \/ PipelineSteps(LoginSlot)

SpecLogin == Init /\ [][NextLogin]_vars

\* loginUser and logoutUser, each called once, in any interleaving.
NextLogout == LoginUser \/ LogoutUser \/ PipelineSteps(LoginSlot)

SpecLogout == Init /\ [][NextLogout]_vars

\* loginUser, logoutUser and ConcReq API calls in any interleaving.
NextSession ==
    \/ LoginUser
    \/ LogoutUser
    \/ PipelineSteps(LoginSlot)
    \/ \E s \in 1..ConcReq : Pipeline(s)

SpecSession == Init /\ [][NextSession]_vars

\* registerUser alone: its call and the steps of its register call.
NextRegister == RegisterCall \/ PipelineSteps(RegisterSlot)

SpecRegister == Init /\ [][NextRegister]_vars

\* handleReview alone: its own steps and those of its upload.
NextReview == ReviewFile \/ PipelineSteps(ReviewSlot)

SpecReview == Init /\ [][NextReview]_vars

\* The request pipeline of unnamed/part_002 under NumReq concurrent API calls.
NextVariant == \E s \in ApiSlots : VariantPipeline(s)

SpecVariant == Init /\ [][NextVariant]_vars

\* ------------------------------------------------------------ properties
TypeOK ==
    /\ isRefreshing \in BOOLEAN
    /\ \A s \in Slots : req[s].sends \in 0..2

\* The refresh call of a cycle never finds the coordinator idle and is never
\* settled by processQueue: the two markers below stand for those paths.
ChdPathsClosed == \A s \in Slots : chd[s].pc \notin {"nested", "drained"}

\* A store call or a network call is outstanding.
IOPending ==
    \E s \in Slots :
        \/ req[s].pc \in {"reqInt", "sent", "getRT", "save", "del"}
        \/ chd[s].pc \in {"reqInt", "sent"}

InitAccess == Jwt(1, TRUE, MaxExp)

\* C1 (as claimed): when every API call was first sent with the initial access
\* credential, got an authentication failure and in the end completed
\* successfully, POST /auth/refresh was put on the wire exactly once and all
\* calls completed with the same credential.
C1_OneRenewalForAll ==
    ( /\ accessTok # Null
      /\ refreshTok # Null
      /\ \A s \in ApiSlots : /\ req[s].pc = "done"
                             /\ req[s].res = "ok"
                             /\ req[s].retry
                             /\ req[s].first = InitAccess )
    => /\ refreshCalls = 1
       /\ \A s, t \in ApiSlots : req[s].bearer = req[t].bearer

\* POST /auth/refresh calls on the wire
ExchangesOnWire ==
    {<<"chd", s>> : s \in {x \in Slots : chd[x].pc = "sent"}}
    \cup {<<"auto", s>> : s \in {x \in {AutoSlot} : req[x].pc = "sent"}}

\* C2 (as claimed): at most one renewal exchange is outstanding, counting those
\* of the response interceptor and those of tryAutoLogin.
C2_SingleExchange == Cardinality(ExchangesOnWire) <= 1

\* The exchange of the cycle started by s has failed: rejected by the remote
\* (with 401/422 the call sits in failedQueue), network error, or no token.
ExchangeFailed(s) ==
    \/ chd[s].res = "fail"
    \/ chd[s].pc = "waiting"
    \/ (chd[s].res = "ok" /\ chd[s].tok = Null)

\* C3 (as claimed): once the renewal exchange has failed and every outstanding
\* call has returned, no waiter is left unsettled and both credentials are
\* gone from the store.
C3_FailureClearsAll ==
    \A s \in ApiSlots :
        (ExchangeFailed(s) /\ ~IOPending /\ req[s].err # "store")
        => /\ \A t \in ApiSlots : req[t].pc # "waiting"
           /\ accessTok = Null
           /\ refreshTok = Null

\* C4: a request goes on the wire at most twice, and the response to a request
\* whose _retry is set settles it to its caller: it starts no renewal cycle and
\* is not enqueued.
C4_Step ==
    \A s \in Slots :
        /\ req'[s].sends <= 2
        /\ (req[s].pc = "sent" /\ req[s].retry /\ req'[s] # req[s])
           => /\ req'[s].pc = "done"
              /\ req'[s].sends = 2
              /\ UNCHANGED <<isRefreshing, failedQueue, cycle, chd, refreshCalls>>

C4_RetriedAtMostOnce == [][C4_Step]_vars

C4_Witness ==
    \E s \in ApiSlots :
        /\ req[s].pc = "done" /\ req[s].sends = 2 /\ req[s].retry
        /\ req[s].res = "fail" /\ req[s].err = "auth"
        /\ req[s].role = "wait"

\* What a request got out of the renewal cycle it took part in.
Resolved(s) == req[s].cyc # 0 /\ req[s].got # Null
Rejected(s) == /\ req[s].cyc # 0 /\ req[s].got = Null /\ req[s].pc = "done"

\* C5 (as claimed): the initiator and the waiters of one cycle observe the same
\* outcome: the same new credential, or the same failure.
C5_SameOutcome ==
    \A s, t \in ApiSlots :
        req[s].cyc = req[t].cyc =>
            /\ ~(Resolved(s) /\ Rejected(t))
            /\ (Resolved(s) /\ Resolved(t) => req[s].got = req[t].got)
            /\ (Rejected(s) /\ Rejected(t) => req[s].err = req[t].err)

\* C6 (as claimed): no request stays in failedQueue once every outstanding
\* network and store call has returned.
C6_WaitersSettled == ~IOPending => failedQueue = <<>>

\* C7 (as claimed): isRefreshing is false again once every outstanding network
\* and store call has returned.
C7_FlagReset == ~IOPending => ~isRefreshing

\* C8 (as claimed): every renewal exchange on the wire carries the renewal
\* credential it was called with, never the stored access credential.
C8_RenewalBearer ==
    /\ \A s \in Slots :
          chd[s].pc = "sent" =>
              /\ chd[s].bearer = chd[s].hdr
              /\ (chd[s].acc # Null => chd[s].bearer # chd[s].acc)
    /\ (req[AutoSlot].pc = "sent" /\ req[AutoSlot].sends = 1)
          => req[AutoSlot].bearer = auto.rtok

\* C9 (as claimed): when saveToken returns in a successful cycle, the store
\* holds the response's token and, if one was issued, the response's
\* refreshToken; the initiator and every waiter continue with the token.
C9_Step ==
    \A s \in ApiSlots :
        (req[s].pc = "save" /\ req'[s].pc = "reqInt")
        => /\ accessTok' = chd[s].tok
           /\ (chd[s].rt # Null => refreshTok' = chd[s].rt)
           /\ req'[s].got = chd[s].tok
           /\ \A t \in ApiSlots : req[t].pc = "waiting" => req'[t].got = chd[s].tok

C9_RenewalPersisted == [][C9_Step]_vars

\* The credential is present, decodes, has an exp claim, and now, in
\* milliseconds, is before exp * 1000.
Usable(token, now) ==
    token # Null /\ token.dec /\ token.exp # 0 /\ now < token.exp * 1000

\* C10: a tryAutoLogin call that reads a usable access credential returns that
\* credential; its steps put nothing on the wire and leave the store,
\* isRefreshing and failedQueue as they were.
C10_Step ==
    (auto' # auto /\ auto.pc \in {"idle", "getTok"})
    => /\ UNCHANGED <<accessTok, refreshTok, isRefreshing, failedQueue, req,
                      chd, refreshCalls, defaultAuth>>
       /\ (auto.pc = "getTok" /\ Usable(auto'.tok, auto'.now))
             => /\ auto'.pc = "done"
                /\ auto'.ret = accessTok
                /\ auto'.net = 0
                /\ req[AutoSlot].pc = "idle"

C10_ValidTokenNoNetwork == [][C10_Step]_vars

C10_Witness ==
    /\ auto.pc = "done" /\ auto.res = "stored"
    /\ Usable(auto.tok, auto.now) /\ auto.ret = auto.tok
    /\ accessTok = auto.tok /\ refreshTok # Null

\* tryAutoLogin has read an unusable access credential and then a usable
\* renewal credential.
AutoRenewing ==
    /\ auto.pc \in {"exch", "save", "saveRT", "done"}
    /\ ~Usable(auto.tok, auto.now)
    /\ Usable(auto.rtok, auto.rnow)

\* C11 (as claimed): a tryAutoLogin call that found an unusable access
\* credential and a usable renewal credential has at most one POST
\* /auth/refresh put on the wire on its behalf, the interceptor's included;
\* when it returns a credential, that is the response's token and the store
\* holds it.
C11_OneExchange ==
    AutoRenewing
    => /\ refreshCalls <= 1
       /\ auto.res = "renewed"
             => /\ auto.ret = req[AutoSlot].newTok
                /\ accessTok = auto.ret

\* C12: a tryAutoLogin call whose reads return an absent or expired access
\* credential and an absent or expired renewal credential returns null; no
\* step of it puts a call on the wire or writes the store.
C12_Step ==
    /\ (auto.pc = "getTok" /\ auto'.now # 0 /\ ~Usable(auto'.tok, auto'.now))
          => /\ \/ auto'.pc = "getRT"
                \/ (auto'.pc = "done" /\ auto'.res = "null"
                       /\ "getRefreshToken" \notin bridge)
             /\ auto'.net = 0
             /\ UNCHANGED <<accessTok, refreshTok, req, chd, refreshCalls,
                            isRefreshing, failedQueue>>
    /\ (auto.pc = "getRT" /\ auto'.rnow # 0
           /\ ~Usable(auto.tok, auto.now) /\ ~Usable(auto'.rtok, auto'.rnow))
          => /\ auto'.pc = "done"
             /\ auto'.res = "null"
             /\ auto'.ret = Null
             /\ auto'.net = 0
             /\ req'[AutoSlot].pc = "idle"
             /\ UNCHANGED <<accessTok, refreshTok, req, chd, refreshCalls,
                            isRefreshing, failedQueue>>

C12_NoSession == [][C12_Step]_vars

C12_Witness ==
    /\ auto.pc = "done" /\ auto.res = "null" /\ auto.net = 0
    /\ auto.tok # Null /\ auto.tok.dec /\ auto.tok.exp # 0
    /\ auto.rtok # Null /\ auto.rtok.dec /\ auto.rtok.exp # 0
    /\ auto.now >= auto.tok.exp * 1000
    /\ auto.rnow >= auto.rtok.exp * 1000
    /\ accessTok = auto.tok /\ refreshTok = auto.rtok

\* C13 (as claimed): when the remote has accepted the login with a token and
\* a refreshToken and no store call has failed, loginUser returns and the
\* store holds both credentials of the response.
C13_LoginPersistsBoth ==
    ( /\ login.pc = "done"
      /\ req[LoginSlot].res = "ok"
      /\ login.newRT # Null
      /\ ~login.fault )
    => /\ login.res = "ok"
       /\ accessTok = login.newTok
       /\ refreshTok = login.newRT

\* C14 (as claimed): the login call never starts or joins a renewal cycle, so
\* nothing is deleted, no redirect happens and the call cannot be left
\* waiting; a login the remote rejected with a message in the body ends in
\* loginUser throwing that message.
C14_RejectedLoginThrows ==
    /\ req[LoginSlot].role = "none"
    /\ chd[LoginSlot].pc = "none"
    /\ ~redirected
    /\ ( /\ login.pc = "done"
         /\ req[LoginSlot].res = "fail"
         /\ req[LoginSlot].err \in {"auth", "status"}
         /\ login.body = "message" )
       => login.thrown = "message"

\* C15: no step of logoutUser puts a call on the wire, and the step at which
\* logoutUser completes leaves the store without access credential and
\* without renewal credential.
C15_Step ==
    /\ logout' # logout
          => UNCHANGED <<req, chd, refreshCalls, auto, login>>
    /\ (logout = "del" /\ logout' = "done")
          => /\ accessTok' = Null
             /\ refreshTok' = Null

C15_LogoutClearsStore == [][C15_Step]_vars

C15_Witness ==
    /\ logout = "done"
    /\ login.pc = "done" /\ login.res = "ok" /\ login.newRT # Null
    /\ accessTok = Null /\ refreshTok = Null

\* C16 (as claimed): the store goes from holding no credential to holding one
\* only at a step at which a store call of a successful loginUser returns.
C16_Step ==
    ( /\ accessTok = Null /\ refreshTok = Null
      /\ (accessTok' # Null \/ refreshTok' # Null) )
    => /\ login.pc \in {"save", "saveRT"}
       /\ login'.pc # login.pc

C16_OnlyLoginCreates == [][C16_Step]_vars

\* C17 (as claimed): a call other than a renewal exchange leaves the request
\* interceptor with the access credential stored at that moment as its
\* bearer, and with no credential at all when none is stored.
C17_Step ==
    \A s \in Slots \ {AutoSlot} :
        (req[s].pc = "reqInt" /\ req'[s].pc = "sent")
        => IF accessTok # Null
           THEN req'[s].bearer = accessTok
           ELSE req'[s].bearer.id <= 0

C17_BearerIsStored == [][C17_Step]_vars

\* C18: in every state in which a response is awaited, the error handler
\* leaves the same request, queue, flag, cycle and refresh-call state for a
\* 401 as for a 422; so does the handling of the refresh call's response.
C18_SameFor401And422 ==
    \A s \in Slots :
        /\ req[s].pc = "sent" => ErrorHandler(s, 401) = ErrorHandler(s, 422)
        /\ chd[s].pc = "sent" => ChdErrorHandler(s, 401) = ChdErrorHandler(s, 422)

C18_Witness ==
    \E s, t \in ApiSlots :
        /\ req[s].pc = "sent" /\ ~req[s].retry /\ isRefreshing
        /\ ErrorHandler(s, 422).req[s].pc = "waiting"
        /\ ErrorHandler(s, 401).failedQueue = Append(failedQueue, QReq(s))
        /\ chd[t].pc = "sent"
        /\ ChdErrorHandler(t, 422).chd[t].pc = "waiting"

\* The credentials isTokenExpired is given: null, and tokens that do not
\* decode, lack the exp claim, or carry one.
Tokens == {Null} \cup {Jwt(i, d, e) : i \in 1..2, d \in BOOLEAN, e \in Exps}

\* C19: isTokenExpired(token) is false exactly when the token is present,
\* decodes, has a non-zero exp and now < exp * 1000; the two steps of
\* tryAutoLogin that call it decide by that value and change nothing but
\* tryAutoLogin's own progress (and, for a usable renewal credential, issue
\* the refresh call).
C19_Step ==
    /\ \A token \in Tokens, now \in Nows :
          isTokenExpired(token, now) = ~Usable(token, now)
    /\ (auto.pc = "getTok" /\ auto'.now # 0)
          => /\ (auto'.res = "stored") = Usable(accessTok, auto'.now)
             /\ auto'.tok = accessTok
             /\ UNCHANGED <<accessTok, refreshTok, isRefreshing, failedQueue,
                            defaultAuth, req, chd, refreshCalls, redirected>>
    /\ (auto.pc = "getRT" /\ auto'.rnow # 0)
          => /\ (auto'.pc = "exch") = Usable(refreshTok, auto'.rnow)
             /\ ((auto'.pc # "exch") => (auto'.pc = "done" /\ auto'.res = "null"))
             /\ UNCHANGED <<accessTok, refreshTok, isRefreshing, failedQueue,
                            defaultAuth, chd, refreshCalls, redirected>>

C19_ExpiryOracle == [][C19_Step]_vars

C19_Witness ==
    /\ auto.pc = "done" /\ auto.res = "null"
    /\ auto.tok # Null /\ auto.tok.dec /\ auto.tok.exp # 0
    /\ auto.now = auto.tok.exp * 1000
    /\ auto.rtok # Null /\ ~auto.rtok.dec
    /\ auto.net = 0

\* The error handler only rejects request s for status st: the request is
\* settled as failed, not sent again, and nothing else changes.
OnlyRejects(s, st) ==
    LET e == ErrorHandler(s, st) IN
    /\ e.req = [req EXCEPT ![s].pc = "done", ![s].res = "fail",
                           ![s].err = ErrLabel(st)]
    /\ e.failedQueue = failedQueue
    /\ e.isRefreshing = isRefreshing
    /\ e.cycle = cycle
    /\ e.chd = chd

\* C20: for a network error and for an error status other than 401/422 the
\* error handler only rejects the request; the step at which a response
\* arrives touches neither the store nor the redirect; the pipeline deletes
\* credentials and redirects only at the end of the catch block of a failed
\* renewal.
C20_Step ==
    /\ \A s \in Slots :
          req[s].pc = "sent"
          => /\ \A st \in Statuses \ ({200} \cup {401, 422}) : OnlyRejects(s, st)
             /\ (req'[s] # req[s]
                   => UNCHANGED <<accessTok, refreshTok, redirected,
                                  defaultAuth, refreshCalls>>)
    /\ (redirected' # redirected \/ (accessTok' = Null /\ accessTok # Null))
          => \E s \in Slots : /\ req[s].pc = "del"
                              /\ req[s].role = "init"
                              /\ req'[s].pc = "done"

C20_OtherFailuresPropagate == [][C20_Step]_vars

C20_Witness ==
    \E s \in ApiSlots :
        /\ req[s].pc = "done" /\ req[s].res = "fail"
        /\ req[s].err \in {"net", "status"}
        /\ req[s].sends = 1 /\ ~req[s].retry
        /\ isRefreshing /\ failedQueue # <<>>
        /\ accessTok # Null /\ ~redirected

\* C21 (as claimed): failedQueue is empty whenever isRefreshing is false.
C21_QueueEmptyWhenIdle == ~isRefreshing => failedQueue = <<>>

\* C22 (as claimed): a waiter's continuation or rejection handler never runs
\* while isRefreshing is still true.
C22_FlagResetBeforeWaiters ==
    \A s \in Slots : req[s].role = "wait" => ~req[s].seen

\* C23 (as claimed): POST /auth/refresh goes on the wire only while a renewal
\* credential is stored.
C23_Step == refreshCalls' > refreshCalls => refreshTok # Null

C23_NoRenewalWhileAbsent == [][C23_Step]_vars

\* A renewal exchange has failed: the one tryAutoLogin issued was answered
\* with an error, or the one of an interceptor cycle was.
SomeExchangeFailed ==
    \/ req[AutoSlot].retry
    \/ req[AutoSlot].res = "fail"
    \/ \E s \in Slots : ExchangeFailed(s)

\* C24 (as claimed): once a renewal exchange has failed, no further POST
\* /auth/refresh goes on the wire.
C24_Step == SomeExchangeFailed => refreshCalls' = refreshCalls

C24_FailedRenewalTerminal == [][C24_Step]_vars

\* C25: a renewal response without token never leads to a store write of
\* the access credential, is never handed on as a credential, and ends the
\* renewal as failed: the interceptor calls saveToken only with a token and
\* enters its catch block otherwise; tryAutoLogin returns null.
C25_Step ==
    /\ \A s \in Slots :
          /\ req[s].pc = "save" => req[s].newTok # Null
          /\ (req[s].pc = "save" /\ req'[s].pc = "reqInt") => accessTok' # Null
          /\ req'[s].got # req[s].got => req'[s].got # Null
          /\ (chd'[s].res = "ok" /\ chd'[s].tok = Null)
                => /\ req'[s].pc \in {"del", "done"}
                   /\ req'[s].res # "ok"
                   /\ req'[s].got = Null
    /\ (auto.pc = "save" /\ auto' # auto)
          => /\ accessTok' # Null \/ accessTok' = accessTok
             /\ auto.newTok = Null
                   => (auto'.res = "null" /\ auto'.ret = Null
                          /\ UNCHANGED <<accessTok, refreshTok>>)
    /\ auto'.res = "renewed" => auto'.ret # Null

C26_FailedResumeClearsStore ==
    ( /\ auto.pc = "done" /\ auto.res = "null"
      /\ req[AutoSlot].pc = "done" /\ req[AutoSlot].res = "fail"
      /\ req[AutoSlot].sends >= 1 )
    => /\ accessTok = Null
       /\ refreshTok = Null

\* The cycle request s started has failed: getRefreshToken or saveToken
\* threw, or the exchange failed.
CycleFailed(s) ==
    /\ req[s].role = "init"
    /\ \/ req[s].err \in {"renewal", "store"}
       \/ ExchangeFailed(s)

\* C27 (as claimed): once the cycle a request started has failed and no call
\* is outstanding, the request has been rejected with the renewal failure
\* and the redirect has been executed.
C27_FailureRejectsAndRedirects ==
    \A s \in ApiSlots :
        (CycleFailed(s) /\ ~IOPending)
        => /\ req[s].pc = "done"
           /\ req[s].res = "fail"
           /\ req[s].err = "renewal"
           /\ redirected

\* C28 (as claimed): the refresh call of a cycle is never pushed onto
\* failedQueue.
C28_ExchangeNotEnqueued ==
    \A s \in Slots : ~InQueue(QChd(s)) /\ chd[s].pc # "waiting"

\* Both credentials are stored, or neither.
Paired == (accessTok = Null) = (refreshTok = Null)

\* C29 (as claimed): no step takes the store from holding a pair (or nothing)
\* to holding one credential without the other, the moment between
\* loginUser's two store calls apart; after a successful login the store
\* holds the pair of that login.
C29_Step ==
    /\ Paired => (Paired' \/ login'.pc = "saveRT")
    /\ (login'.pc = "done" /\ login'.res = "ok" /\ login.pc # "done")
          => /\ accessTok' = login'.newTok
             /\ refreshTok' = login'.newRT

C29_SessionPaired == [][C29_Step]_vars

\* C30 (as claimed): when loginUser has thrown, the store is as it was when
\* loginUser was called.
C30_FailedLoginNoWrite ==
    (login.pc = "done" /\ login.res = "throw")
    => /\ accessTok = login.hadTok
       /\ refreshTok = login.hadRT

\* C31 (as claimed): no step taken while registerUser's call is under way
\* changes the stored credentials, starts a renewal cycle, puts a
\* POST /auth/refresh on the wire or redirects to login.
C31_Step ==
    (req[RegisterSlot].pc # "idle" \/ req'[RegisterSlot].pc # "idle")
    => UNCHANGED <<accessTok, refreshTok, cycle, refreshCalls, redirected,
                   isRefreshing>>

C31_RegisterLeavesSession == [][C31_Step]_vars

\* C32 (as claimed): once a handleReview call that set isProcessingReview has
\* ended, by doFileReview returning or throwing, isProcessingReview is false.
C32_ProcessingCleared ==
    (review.pc = "done" /\ review.filePath # "") => ~review.isProcessingReview

\* C33 (as claimed): with the interceptor of unnamed/part_002 a request goes
\* on the wire at most twice, and once every outstanding network and store
\* call has returned every dispatched request has settled to its caller.
C33_VariantTerminates ==
    /\ \A s \in ApiSlots : req[s].sends <= 2
    /\ ~IOPending => \A s \in ApiSlots : req[s].pc \in {"idle", "done"}

\* C34 (as claimed): with the interceptor of unnamed/part_002 the step in
\* which a request is rejected with its network error leaves failedQueue,
\* every other request and every refresh call as they were.
C34_Step ==
    \A s \in ApiSlots :
        (req[s].pc = "sent" /\ req'[s].pc = "done" /\ req'[s].err = "net")
        => /\ failedQueue' = failedQueue
           /\ \A t \in Slots \ {s} : req'[t] = req[t]
           /\ chd' = chd

C34_NetworkErrorLocal == [][C34_Step]_vars

====
